---- MODULE Spec2Model ----
(***************************************************************************)
(* SwiftDrop: the transfer engine of a peer-to-peer file transfer.         *)
(*                                                                         *)
(* A sender (pages/Transfer.tsx in sender mode, driving a WebRTCTransfer)  *)
(* encrypts each selected file with AES-GCM, prepends the IV, cuts the     *)
(* result into CHUNK_SIZE slices and sends, per file, a metadata message,  *)
(* the slices and an `end` message over an ordered data channel.  A        *)
(* receiver (Transfer.tsx in receiver mode with its own WebRTCTransfer)    *)
(* accumulates the slices and, on `end`, splits off the IV, decrypts and   *)
(* surfaces the file.                                                      *)
(*                                                                         *)
(* Byte buffers are modelled as sequences of segments.  A segment names a  *)
(* run of bytes [from, to) of one source: the IV drawn by one call of      *)
(* encryptData, the ciphertext (with its trailing tag) that call produced, *)
(* or bytes altered in transit.  Lengths are the real byte counts, so the  *)
(* chunking arithmetic runs on the program's own constants; AES-GCM itself *)
(* (a library) is modelled by what it guarantees: decryptData returns the  *)
(* plaintext exactly when it is handed the whole ciphertext of one         *)
(* encryptData call, the IV of that call and its key, and throws otherwise.*)
(***************************************************************************)
EXTENDS Integers, Sequences, FiniteSets, TLC

(***************************************************************************)
(* Program constants.                                                      *)
(***************************************************************************)
CHUNK_SIZE == 16384
IV_LENGTH == 12
\* encryptData passes no tagLength, so AES-GCM appends its default 128-bit tag.
TAG_LENGTH == 128 \div 8
\* sendFile waits while bufferedAmount > CHUNK_SIZE * 4.
BufferThreshold == CHUNK_SIZE * 4

(***************************************************************************)
(* Bounds of the model.                                                    *)
(***************************************************************************)
\* Most files selected for one session.
MaxFiles == 2
\* Most clicks on the Pause/Resume button.
MaxToggles == 2
\* The longest buffer and the largest chunk size the chunking law is run on.
MaxLen == 7
MaxChunk == 3
\* Most steps of the clock, and most calls of the retention sweep.
MaxTicks == 2
MaxSweeps == 2

\* The Start Transfer clicks followed after the first.
MaxSuspended == 1

\* Most ICE candidates in a pasted payload.
MaxCandidates == 2

\* The messages a remote peer sends in a session of its own making.
MaxPeerMsgs == 4

Min(a, b) == IF a < b THEN a ELSE b
Max(a, b) == IF a > b THEN a ELSE b

(***************************************************************************)
(* Byte buffers as sequences of segments.                                  *)
(***************************************************************************)
SegLen(s) == s.to - s.from

RECURSIVE ByteLength(_)
ByteLength(buf) ==
    IF buf = <<>> THEN 0 ELSE SegLen(Head(buf)) + ByteLength(Tail(buf))

\* Two adjacent segments are one run of the same source.
Joins(a, b) == a.kind = b.kind /\ a.id = b.id /\ a.to = b.from

\* The canonical form of a buffer: no empty segment, adjacent runs merged, so
\* that two buffers hold the same bytes exactly when their forms are equal.
RECURSIVE Norm(_)
Norm(buf) ==
    IF buf = <<>> THEN <<>>
    ELSE LET h == Head(buf)
             r == Norm(Tail(buf))
         IN IF SegLen(h) <= 0 THEN r
            ELSE IF r # <<>> /\ Joins(h, Head(r))
                 THEN <<[h EXCEPT !.to = Head(r).to]>> \o Tail(r)
                 ELSE <<h>> \o r

\* TypedArray.prototype.set(src, offset) into a fresh array filled chunk by
\* chunk: the concatenation of the buffers.
Concat(a, b) == Norm(a \o b)

\* TypedArray.prototype.slice(begin, end): bytes [begin, end) of the buffer,
\* end clamped to the length.
RECURSIVE Slice(_, _, _)
Slice(buf, begin, end) ==
    IF buf = <<>> \/ end <= begin \/ end <= 0 THEN <<>>
    ELSE LET h == Head(buf)
             l == SegLen(h)
             lo == Max(begin, 0)
             hi == Min(end, l)
             part == IF lo < hi
                     THEN <<[h EXCEPT !.from = h.from + lo, !.to = h.from + hi]>>
                     ELSE <<>>
         IN Norm(part \o Slice(Tail(buf), begin - l, end - l))

(***************************************************************************)
(* encryption.ts                                                           *)
(***************************************************************************)
\* The key both peers hold: generated by the sender, exported into the
\* session data and imported by the receiver.
SessionKey == "key"

\* The IV of the n-th call of encryptData: IV_LENGTH fresh random bytes.
IvOf(n) == <<[kind |-> "iv", id |-> n, from |-> 0, to |-> IV_LENGTH]>>

\* The identity of one ciphertext: the plaintext (file f, len bytes), the key
\* and the IV it was produced under.
CipherId(f, len, key, n) == [f |-> f, len |-> len, key |-> key, n |-> n]

\* encryptData(data, key) on its n-th call: the IV and the ciphertext, which
\* is the plaintext's length plus the tag.
encryptData(f, len, key, n) ==
    [iv |-> IvOf(n),
     encrypted |-> <<[kind |-> "ct", id |-> CipherId(f, len, key, n),
                      from |-> 0, to |-> len + TAG_LENGTH]>>]

\* What decryptData throws.
OperationError == [ok |-> FALSE, f |-> 0, len |-> 0]

\* decryptData(encryptedData, key, iv): the plaintext when the ciphertext is
\* whole and unaltered and key and IV are the ones it was made with.
decryptData(encryptedData, key, iv) ==
    LET ct == Norm(encryptedData)
        nonce == Norm(iv)
    IN IF /\ Len(ct) = 1 /\ Len(nonce) = 1
          /\ ct[1].kind = "ct" /\ nonce[1].kind = "iv"
          /\ ct[1].from = 0 /\ ct[1].to = ct[1].id.len + TAG_LENGTH
          /\ nonce[1].from = 0 /\ nonce[1].to = IV_LENGTH
          /\ ct[1].id.key = key
          /\ ct[1].id.n = nonce[1].id
       THEN [ok |-> TRUE, f |-> ct[1].id.f, len |-> ct[1].id.len]
       ELSE OperationError

(***************************************************************************)
(* Files and wire messages.                                                *)
(***************************************************************************)
FileNames == <<"a.txt", "b.bin", "c.png", "d.dat">>
FileTypes == <<"text/plain", "application/octet-stream", "image/png", "">>

\* A File object: f stands for the bytes file.arrayBuffer() returns.
FileOf(i, size) ==
    [name |-> FileNames[i], size |-> size, type |-> FileTypes[i], f |-> i]

\* The sizes a selected file may have: empty (one short chunk once
\* encrypted), and three chunks of which the last holds a single byte.
FileSizes == {0, 2 * CHUNK_SIZE + 1 - IV_LENGTH - TAG_LENGTH}

\* The files of Scenario B: the second one makes ten chunks.
ScenarioB ==
    <<FileOf(1, 0),
      FileOf(2, 9 * CHUNK_SIZE + 1 - IV_LENGTH - TAG_LENGTH),
      FileOf(3, 0)>>

\* A session for the metrics: a file of two chunks followed by an empty one,
\* so that a file's first sample follows one of more bytes.
ScenarioRule ==
    <<FileOf(1, CHUNK_SIZE + 1 - IV_LENGTH - TAG_LENGTH), FileOf(2, 0)>>

\* The file of Scenario A: 1 MiB.
ScenarioA == <<FileOf(1, 64 * CHUNK_SIZE)>>

\* The file lists the user may have selected before the session was set up.
Manifests ==
    UNION {{[i \in 1..n |-> FileOf(i, sz[i])] : sz \in [1..n -> FileSizes]} :
           n \in 1..MaxFiles}

Digits(n) == IF n < 10 THEN 1 ELSE IF n < 100 THEN 2 ELSE IF n < 1000 THEN 3
             ELSE IF n < 10000 THEN 4 ELSE IF n < 100000 THEN 5
             ELSE IF n < 1000000 THEN 6 ELSE 7

\* JSON.stringify({type: 'metadata', name, size, mimeType}).
MetadataMsg(file) ==
    [type |-> "metadata", name |-> file.name, size |-> file.size,
     mimeType |-> file.type]
\* JSON.stringify({type: 'end'}).
EndMsg == [type |-> "end"]
\* A binary message: one slice of combinedData.
ChunkMsg(data) == [type |-> "chunk", data |-> data]

\* The bytes a message adds to the channel's bufferedAmount.
MsgBytes(m) ==
    CASE m.type = "chunk" -> ByteLength(m.data)
      [] m.type = "metadata" ->
            51 + Len(m.name) + Digits(m.size) + Len(m.mimeType)
      [] m.type = "end" -> 14
      [] m.type = "pause" -> 16
      [] OTHER -> 17

\* Math.round((sent / total) * 100); a division by zero gives Infinity or NaN.
Percentage(sent, total) ==
    IF total = 0 THEN (IF sent = 0 THEN "NaN" ELSE "Infinity")
    ELSE (200 * sent + total) \div (2 * total)

ZeroProgress == [sent |-> 0, total |-> 0, percentage |-> 0]

\* A number as the quotient of two integers, the divisor positive.
Zero == [num |-> 0, den |-> 1]

\* The refs and the metrics of a page before its first progress sample.
ZeroMeter ==
    [start |-> 0, last |-> [sent |-> 0, time |-> 0],
     speed |-> Zero, eta |-> Zero]

\* remaining / speed, for a speed above 0.
Eta(remaining, speed) ==
    [num |-> remaining * speed.den, den |-> speed.num]

\* A callback that takes the recent speed from 100 ms on, not after.
onProgressFromBoundary(meter, prog, t) ==
    LET refs == IF meter.start = 0
                THEN [meter EXCEPT !.start = t,
                                   !.last = [sent |-> prog.sent, time |-> t]]
                ELSE meter
        timeDiff == t - refs.last.time
        bytesDiff == prog.sent - refs.last.sent
        totalTime == t - refs.start
        remaining == prog.total - prog.sent
        recent == [num |-> bytesDiff * 1000, den |-> timeDiff]
        overall == IF totalTime > 0
                   THEN [num |-> prog.sent * 1000, den |-> totalTime]
                   ELSE Zero
    IN IF timeDiff >= 100
       THEN [start |-> refs.start,
             last |-> [sent |-> prog.sent, time |-> t],
             speed |-> recent,
             eta |-> IF recent.num > 0 THEN Eta(remaining, recent) ELSE Zero]
       ELSE IF refs.last.time > 0
       THEN [refs EXCEPT
                !.speed = overall,
                !.eta = IF overall.num > 0 THEN Eta(remaining, overall)
                        ELSE Zero]
       ELSE [refs EXCEPT !.speed = Zero, !.eta = Zero]

\* The onProgress callback of Transfer.tsx, the same on both pages, on the
\* sample prog at time t (ms): the refs are set on the first sample, the
\* speed is taken over the time since the last update when that is more
\* than 100 ms and over the whole transfer otherwise, and the ETA is
\* remaining / speed when the speed is above 0, else 0.
onProgress(meter, prog, t) ==
    LET refs == IF meter.start = 0
                THEN [meter EXCEPT !.start = t,
                                   !.last = [sent |-> prog.sent, time |-> t]]
                ELSE meter
        timeDiff == t - refs.last.time
        bytesDiff == prog.sent - refs.last.sent
        totalTime == t - refs.start
        remaining == prog.total - prog.sent
        recent == [num |-> bytesDiff * 1000, den |-> timeDiff]
        overall == IF totalTime > 0
                   THEN [num |-> prog.sent * 1000, den |-> totalTime]
                   ELSE Zero
    IN IF timeDiff > 100
       THEN [start |-> refs.start,
             last |-> [sent |-> prog.sent, time |-> t],
             speed |-> recent,
             eta |-> IF recent.num > 0 THEN Eta(remaining, recent) ELSE Zero]
       ELSE IF refs.last.time > 0
       THEN [refs EXCEPT
                !.speed = overall,
                !.eta = IF overall.num > 0 THEN Eta(remaining, overall)
                        ELSE Zero]
       ELSE [refs EXCEPT !.speed = Zero, !.eta = Zero]

\* Math.round of a quotient: the nearest integer, a half rounded up.
Round(q) == (2 * q.num + q.den) \div (2 * q.den)

\* ProgressBar's formatETA(seconds): 'Calculating...' for 0 (Infinity and NaN
\* do not come out of onProgress), else the time as text; below a minute it
\* is the rounded number of seconds followed by 's'.
formatETA(seconds) ==
    IF seconds.num = 0
    THEN [text |-> "Calculating...", value |-> 0]
    ELSE IF seconds.num < 60 * seconds.den
    THEN [text |-> "s", value |-> Round(seconds)]
    ELSE IF seconds.num < 3600 * seconds.den
    THEN [text |-> "m s", value |-> seconds.num \div seconds.den]
    ELSE [text |-> "h m", value |-> seconds.num \div seconds.den]

\* No chunk loop has been run on a buffer of its own; no sweep has run.
NoLaw == [data |-> <<>>, size |-> 0, offset |-> 0, slices |-> <<>>]
NoSweep == [calls |-> 0, maxAge |-> 0, at |-> 0]

\* The id of the one session of the model.
SessionId == "session"

\* The sessions whose state may be in the store: the present one and one of
\* an earlier run of the page.
SweepSessions == {SessionId, "earlier"}

\* No state has been saved.
NoneSaved == [id \in SweepSessions |-> [state |-> {}, call |-> "none"]]

\* No handleReceiveMode call has been made on a payload of its own.
NoSetup ==
    [pc |-> "idle", key |-> [base64 |-> TRUE, bytes |-> 0], ice |-> 0,
     status |-> "idle", answers |-> 0, added |-> 0]

(***************************************************************************)
(* State.                                                                  *)
(***************************************************************************)
VARIABLES
    \* Transfer.tsx of the sending peer
    txMode, txStatus, selectedFiles, txProgress, txConn, txIsPaused,
    \* the sender's WebRTCTransfer
    txDc, isPaused, bufferedAmount,
    \* the running handleStartTransfer / sendFiles / sendFile call
    txPc, txFiles, txIdx, ivCtr, txIv, combinedData, offset, txHistory,
    \* the data channel, sender to receiver
    wire, sentLog,
    \* the receiver's WebRTCTransfer
    rxDc, receivedChunks, receivedFileName, receivedFileType, totalSize,
    receivedSize, rxDecrypting, rxErrors, rxSeen,
    \* Transfer.tsx of the receiving peer
    rxMode, rxStatus, rxProgress, rxConn, rxFiles, rxHistory,
    rxDownloads,
    \* the environment
    toggles, tampered,
    \* the transferStates store of IndexedDB, and the sender's restart
    transferStates, resumeMark,
    \* the clock (Date.now(), in ms) and whether IndexedDB requests succeed
    now, storageOk,
    \* the progress metrics of the two pages: the refs progressStartTimeRef
    \* and lastProgressUpdateRef, and the speed and eta of the progress state
    txMeter, rxMeter,
    \* the chunk loop run on a buffer and a chunk size of its own, and the
    \* last call of the retention sweep
    law, sweep,
    \* the handleStartTransfer calls begun after the first and suspended at
    \* the first await of their sendFile
    txSuspended,
    \* a handleReceiveMode call on a pasted payload: the place it has
    \* reached, the key string and the ICE candidates of the payload, the
    \* status it shows, and the answers created and candidates added
    rxSetup,
    \* for each session id, the last call made on its record: the state
    \* handed to saveTransferState and not deleted since (none: the empty
    \* set), and whether the call saved a first state, replaced another
    \* state or deleted
    lastSaved

txUi == <<txMode, txStatus, selectedFiles, txProgress, txConn, txIsPaused>>
txRtc == <<txDc, isPaused, bufferedAmount>>
txCall == <<txPc, txFiles, txIdx, ivCtr, txIv, combinedData, offset, txHistory>>
chan == <<wire, sentLog>>
rxRtc == <<rxDc, receivedChunks, receivedFileName, receivedFileType,
           totalSize, receivedSize, rxDecrypting, rxErrors, rxSeen>>
rxUi == <<rxMode, rxStatus, rxProgress, rxConn, rxFiles, rxHistory,
          rxDownloads>>
resume == <<transferStates, resumeMark>>
aux == <<now, storageOk, law, sweep, txSuspended, rxSetup, lastSaved>>
meters == <<txMeter, rxMeter>>
env == <<toggles, tampered, resume, aux>>
vars == <<txUi, txRtc, txCall, chan, rxRtc, rxUi, env, meters>>

\* The state once the sender has run handleSendMode on its selected files and
\* the receiver has run handleReceiveMode on the pasted session data.
InitWith(files) ==
    /\ txMode = "sender" /\ txStatus = "waiting-connection"
    /\ selectedFiles = files
    /\ txProgress = ZeroProgress /\ txConn = "disconnected"
    /\ txIsPaused = FALSE
    /\ txDc = "connecting" /\ isPaused = FALSE /\ bufferedAmount = 0
    /\ txPc = "idle" /\ txFiles = <<>> /\ txIdx = 0 /\ ivCtr = 0 /\ txIv = 0
    /\ combinedData = <<>> /\ offset = 0 /\ txHistory = <<>>
    /\ wire = <<>> /\ sentLog = <<>>
    /\ rxDc = "connecting" /\ receivedChunks = <<>>
    /\ receivedFileName = "" /\ receivedFileType = "" /\ totalSize = 0
    /\ receivedSize = 0 /\ rxDecrypting = <<>> /\ rxErrors = 0
    /\ rxSeen = [metadata |-> 0, end |-> 0]
    /\ rxMode = "receiver" /\ rxStatus = "connected"
    /\ rxProgress = ZeroProgress /\ rxConn = "disconnected"
    /\ rxFiles = <<>> /\ rxHistory = <<>>
    /\ rxDownloads = <<>>
    /\ toggles = 0 /\ tampered = {}
    /\ transferStates = {} /\ resumeMark = -1
    /\ now = 1 /\ storageOk = TRUE
    /\ txMeter = ZeroMeter /\ rxMeter = ZeroMeter
    /\ law = NoLaw /\ sweep = NoSweep
    /\ txSuspended = 0
    /\ rxSetup = NoSetup
    /\ lastSaved = NoneSaved

Init == \E files \in Manifests : InitWith(files)

(***************************************************************************)
(* The sending peer.                                                       *)
(*                                                                         *)
(* txPc is the place the running handleStartTransfer call has reached:     *)
(*   idle       not started                                                *)
(*   reading    sendFile awaits file.arrayBuffer()                         *)
(*   encrypting sendFile awaits encryptData                                *)
(*   loop       sendFile runs its chunk loop (no await: the script runs on)*)
(*   waiting    sendFile awaits the 10 ms timer of the buffer wait         *)
(*   next       sendFile has returned and sendFiles goes on (no await)     *)
(*   history    handleStartTransfer awaits storageService.addTransfer      *)
(*   done / failed                                                         *)
(*   restarted  the page has been loaded anew and has not yet resumed      *)
(* While the script runs on (loop, next) no other task of the sender's     *)
(* page runs: no click, no event, no update of bufferedAmount.             *)
(***************************************************************************)
TxScriptIdle == txPc \notin {"loop", "next"}

\* RTCDataChannel.send(m): the message is queued and counted as buffered.
\* sentLog keeps the messages of the file protocol, in the order sent.
ChannelSend(m) ==
    /\ wire' = Append(wire, m)
    /\ sentLog' = IF m.type \in {"metadata", "chunk", "end"}
                  THEN Append(sentLog, m) ELSE sentLog
    /\ bufferedAmount' = bufferedAmount + MsgBytes(m)

\* handleStartTransfer's catch block.
TransferFailed ==
    /\ txStatus' = "failed"
    /\ txPc' = "failed"

\* A sendFile that sends the metadata before it looks at the channel.
SendFileBeginEager(files, i, status) ==
    /\ txIdx' = i
    /\ ChannelSend(MetadataMsg(files[i]))
    /\ IF txDc # "open"
       THEN TransferFailed
       ELSE /\ txStatus' = status
            /\ txPc' = "reading"

\* sendFile(files[i]) up to its first await: it throws unless the channel is
\* open, else it sends the metadata and starts reading the file.  The
\* encryption key is set by handleSendMode before any file can be sent.
SendFileBegin(files, i, status) ==
    /\ txIdx' = i
    /\ IF txDc # "open"
       THEN /\ TransferFailed
            /\ UNCHANGED <<wire, sentLog, bufferedAmount>>
       ELSE /\ ChannelSend(MetadataMsg(files[i]))
            /\ txStatus' = status
            /\ txPc' = "reading"

\* sendFiles(files) sends the files one after the other in the order given:
\* the index of the file to send after the idx-th, 0 when none is left.
sendFiles(files, idx) == IF idx < Len(files) THEN idx + 1 ELSE 0

\* A handleStartTransfer call begun when an earlier one has been made, up to
\* the first await of its sendFile: the metadata of the first file is sent
\* and the status set, or sendFile throws and the catch block sets the
\* status.  The call is followed no further.
StartAgain ==
    /\ txSuspended < MaxSuspended
    /\ IF txDc # "open"
       THEN /\ txStatus' = "failed"
            /\ UNCHANGED <<wire, sentLog, bufferedAmount, txSuspended>>
       ELSE /\ ChannelSend(MetadataMsg(selectedFiles[1]))
            /\ txStatus' = "transferring"
            /\ txSuspended' = txSuspended + 1
    /\ UNCHANGED <<txPc, txFiles, txIdx>>

\* The Start Transfer button, shown while status is 'connected'.  The call
\* made first (or first after a restart) is followed to its end.
HandleStartTransfer ==
    /\ txMode = "sender" /\ txStatus = "connected"
    /\ selectedFiles # <<>>
    /\ TxScriptIdle
    /\ txMeter' = [txMeter EXCEPT !.start = now,
                                  !.last = [sent |-> 0, time |-> now]]
    /\ IF txPc \in {"idle", "restarted"}
       THEN /\ txFiles' = selectedFiles
            /\ SendFileBegin(selectedFiles, sendFiles(selectedFiles, 0),
                             "transferring")
            /\ UNCHANGED txSuspended
       ELSE StartAgain
    /\ UNCHANGED <<txMode, selectedFiles, txProgress, txConn, txIsPaused,
                   txDc, isPaused, ivCtr, txIv, combinedData, offset,
                   txHistory, rxRtc, rxUi, toggles, tampered, resume, now,
                   storageOk, law, sweep, rxSetup, lastSaved,
                   rxMeter>>

\* file.arrayBuffer() resolves; encryptData draws its IV and starts.
FileRead ==
    /\ txPc = "reading"
    /\ ivCtr' = ivCtr + 1
    /\ txIv' = ivCtr + 1
    /\ txPc' = "encrypting"
    /\ UNCHANGED <<txUi, txRtc, txFiles, txIdx, combinedData, offset,
                   txHistory, chan, rxRtc, rxUi, env, meters>>

\* combinedData: the IV at offset 0, the ciphertext after it.
CombineIvAndData(iv, encrypted) == Concat(iv, encrypted)

\* encryptData resolves; sendFile builds combinedData and enters its loop.
Encrypted ==
    /\ txPc = "encrypting"
    /\ LET file == txFiles[txIdx]
           e == encryptData(file.f, file.size, SessionKey, txIv)
       IN combinedData' = CombineIvAndData(e.iv, e.encrypted)
    /\ offset' = 0
    /\ txPc' = "loop"
    /\ UNCHANGED <<txUi, txRtc, txFiles, txIdx, ivCtr, txIv, txHistory, chan,
                   rxRtc, rxUi, env, meters>>

\* A slice that ends one byte late.
ChunkOfSizeLate(data, off, size) == Slice(data, off, off + size + 1)

\* combinedData.slice(offset, offset + size)
ChunkOfSize(data, off, size) == Slice(data, off, off + size)

\* A slice of twice the chunk size.
ChunkAtDouble(data, off) == ChunkOfSize(data, off, 2 * CHUNK_SIZE)

\* combinedData.slice(offset, offset + CHUNK_SIZE)
ChunkAt(data, off) == ChunkOfSize(data, off, CHUNK_SIZE)

\* An offset that advances one byte short of the chunk just sent.
NextOffsetShort(off, chunk) == off + ByteLength(chunk) - 1

\* offset += chunk.byteLength
NextOffset(off, chunk) == off + ByteLength(chunk)

\* The bytes sendFile has to send for a file, and the chunks they make.
CombinedLength(file) == IV_LENGTH + file.size + TAG_LENGTH

\* The number of whole chunks, the short last one left out.
TotalChunksFloor(file) == CombinedLength(file) \div CHUNK_SIZE

TotalChunks(file) == (CombinedLength(file) + CHUNK_SIZE - 1) \div CHUNK_SIZE

\* A guard that lets one more chunk into the buffer before it waits.
MustWaitLate(buffered) == buffered > BufferThreshold + CHUNK_SIZE

\* The loop's guard on the buffer: wait while it holds.
MustWait(buffered) == buffered > BufferThreshold

\* One turn of the chunk loop that sends: the buffer is low enough, the
\* slice is sent and a progress sample given to the page.
SendChunk ==
    /\ txPc = "loop"
    /\ offset < ByteLength(combinedData)
    /\ txDc = "open"
    /\ ~MustWait(bufferedAmount)
    /\ LET chunk == ChunkAt(combinedData, offset)
           total == ByteLength(combinedData)
       IN /\ ChannelSend(ChunkMsg(chunk))
          /\ offset' = NextOffset(offset, chunk)
          /\ txProgress' = [sent |-> offset', total |-> total,
                            percentage |-> Percentage(offset', total)]
          /\ txMeter' = onProgress(txMeter,
                                   [sent |-> offset', total |-> total], now)
    /\ UNCHANGED <<txMode, txStatus, selectedFiles, txConn, txIsPaused, txDc,
                   isPaused, txPc, txFiles, txIdx, ivCtr, txIv, combinedData,
                   txHistory, rxRtc, rxUi, env, rxMeter>>

\* One turn of the inner loop: the buffer is too full, sendFile sets a timer.
BufferWait ==
    /\ txPc = "loop"
    /\ offset < ByteLength(combinedData)
    /\ txDc # "null"
    /\ MustWait(bufferedAmount)
    /\ txPc' = "waiting"
    /\ UNCHANGED <<txUi, txRtc, txFiles, txIdx, ivCtr, txIv, combinedData,
                   offset, txHistory, chan, rxRtc, rxUi, env, meters>>

\* A buffer wait that is never woken.
TimerNeverFires ==
    /\ txPc = "waiting"
    /\ UNCHANGED vars

\* The 10 ms timer fires; the loop checks the buffer again.
TimerFires ==
    /\ txPc = "waiting"
    /\ txPc' = "loop"
    /\ UNCHANGED <<txUi, txRtc, txFiles, txIdx, ivCtr, txIv, combinedData,
                   offset, txHistory, chan, rxRtc, rxUi, env, meters>>

\* A sendFile that returns after its last chunk without the end signal.
SendEndSkipped ==
    /\ txPc = "loop"
    /\ offset >= ByteLength(combinedData)
    /\ txDc = "open"
    /\ txPc' = "next"
    /\ UNCHANGED <<txUi, txRtc, txFiles, txIdx, ivCtr, txIv, combinedData,
                   offset, txHistory, chan, rxRtc, rxUi, env, meters>>

\* After the last chunk: the end signal; sendFile returns.
SendEnd ==
    /\ txPc = "loop"
    /\ offset >= ByteLength(combinedData)
    /\ txDc = "open"
    /\ ChannelSend(EndMsg)
    /\ txPc' = "next"
    /\ UNCHANGED <<txUi, txDc, isPaused, txFiles, txIdx, ivCtr, txIv,
                   combinedData, offset, txHistory, rxRtc, rxUi, env, meters>>

\* The loop touches a channel that close() has set to null (a TypeError) or
\* sends on one that is no longer open (an InvalidStateError): sendFile
\* rejects and handleStartTransfer catches.
SendThrows ==
    /\ txPc = "loop"
    /\ IF txDc = "null" THEN TRUE
       ELSE /\ txDc # "open"
            /\ offset < ByteLength(combinedData) => ~MustWait(bufferedAmount)
    /\ TransferFailed
    /\ UNCHANGED <<txMode, selectedFiles, txProgress, txConn, txIsPaused,
                   txRtc, txFiles, txIdx, ivCtr, txIv, combinedData, offset,
                   txHistory, chan, rxRtc, rxUi, env, meters>>

\* One sendFile has returned: sendFiles goes on with the next file, or it
\* resolves and handleStartTransfer sets the status.
NextFile ==
    /\ txPc = "next"
    /\ IF sendFiles(txFiles, txIdx) # 0
       THEN SendFileBegin(txFiles, sendFiles(txFiles, txIdx), txStatus)
       ELSE /\ txStatus' = "completed"
            /\ txPc' = "history"
            /\ UNCHANGED <<txIdx, wire, sentLog, bufferedAmount>>
    /\ UNCHANGED <<txMode, selectedFiles, txProgress, txConn, txIsPaused,
                   txDc, isPaused, txFiles, ivCtr, txIv, combinedData, offset,
                   txHistory, rxRtc, rxUi, env, meters>>

\* The history record handleStartTransfer writes for one sent file.
SentRecord(file) ==
    [fileName |-> file.name, fileSize |-> file.size, type |-> "sent",
     status |-> "completed"]

\* One storageService.addTransfer of the history loop settles: it resolves
\* with the record added, or it rejects and handleStartTransfer's catch block
\* runs.
TxAddTransfer ==
    /\ txPc = "history"
    /\ IF storageOk
       THEN /\ txHistory' =
                 Append(txHistory, SentRecord(txFiles[Len(txHistory) + 1]))
            /\ txPc' = IF Len(txHistory') = Len(txFiles)
                       THEN "done" ELSE "history"
            /\ UNCHANGED txStatus
       ELSE /\ TransferFailed
            /\ UNCHANGED txHistory
    /\ UNCHANGED <<txMode, selectedFiles, txProgress, txConn, txIsPaused,
                   txRtc, txFiles, txIdx, ivCtr, txIv, combinedData, offset,
                   chan, rxRtc, rxUi, env, meters>>

(***************************************************************************)
(* Pause and resume.  Transfer.tsx calls pauseTransfer, resumeTransfer,    *)
(* sendPauseSignal and sendResumeSignal of WebRTCTransfer.                 *)
(***************************************************************************)
\* pauseTransfer() / resumeTransfer(): the isPaused flag of WebRTCTransfer.
pauseTransfer == isPaused' = TRUE
resumeTransfer == isPaused' = FALSE

\* sendPauseSignal() / sendResumeSignal(): a {type: pause} / {type: resume}
\* control message, when the channel is open.
sendSignal(type) ==
    IF txDc = "open"
    THEN ChannelSend([type |-> type])
    ELSE UNCHANGED <<wire, sentLog, bufferedAmount>>

\* The Pause / Resume button, shown while status is transferring or paused.
HandlePauseResume ==
    /\ txMode = "sender" /\ txStatus \in {"transferring", "paused"}
    /\ TxScriptIdle
    /\ toggles < MaxToggles
    /\ toggles' = toggles + 1
    /\ IF txIsPaused
       THEN /\ resumeTransfer
            /\ sendSignal("resume")
            /\ txIsPaused' = FALSE
            /\ txStatus' = "transferring"
       ELSE /\ pauseTransfer
            /\ sendSignal("pause")
            /\ txIsPaused' = TRUE
            /\ txStatus' = "paused"
    /\ UNCHANGED <<txMode, selectedFiles, txProgress, txConn, txDc, txCall,
                   rxRtc, rxUi, tampered, resume, aux, meters>>

(***************************************************************************)
(* The receiving peer.                                                     *)
(***************************************************************************)
\* handleDataChannelMessage, a metadata message.
RxMetadata ==
    /\ rxDc = "open" /\ wire # <<>>
    /\ Head(wire).type = "metadata"
    /\ wire' = Tail(wire)
    /\ receivedFileName' = Head(wire).name
    /\ receivedFileType' = Head(wire).mimeType
    /\ totalSize' = Head(wire).size
    /\ receivedChunks' = <<>>
    /\ receivedSize' = 0
    /\ rxSeen' = [rxSeen EXCEPT !.metadata = @ + 1]
    /\ UNCHANGED <<txUi, txRtc, txCall, sentLog, rxDc, rxDecrypting, rxErrors,
                   rxUi, env, meters>>

\* reassembleFile: the chunks set one after the other into one array.
RECURSIVE Combine(_)
Combine(chunks) ==
    IF chunks = <<>> THEN <<>>
    ELSE Concat(Head(chunks), Combine(Tail(chunks)))

\* reassembleFile: combined.slice(0, 12) and combined.slice(12).
ExtractIv(combined) == Slice(combined, 0, 12)

\* A ciphertext taken from one byte too far into the combined array.
ExtractDataShifted(combined) == Slice(combined, 13, ByteLength(combined))

ExtractData(combined) == Slice(combined, 12, ByteLength(combined))

\* A binary-message handler that reassembles as soon as the bytes received
\* reach the size the metadata declared.
RxChunkByCount ==
    /\ rxDc = "open" /\ wire # <<>>
    /\ Head(wire).type = "chunk"
    /\ wire' = Tail(wire)
    /\ receivedChunks' = Append(receivedChunks, Head(wire).data)
    /\ receivedSize' = receivedSize + ByteLength(Head(wire).data)
    /\ rxProgress' = [sent |-> receivedSize', total |-> totalSize,
                      percentage |-> Percentage(receivedSize', totalSize)]
    /\ rxDecrypting' =
          IF receivedSize' >= totalSize
          THEN Append(rxDecrypting,
                      [iv |-> ExtractIv(Combine(receivedChunks')),
                       encryptedData |->
                           ExtractData(Combine(receivedChunks'))])
          ELSE rxDecrypting
    /\ rxMeter' = onProgress(rxMeter,
                             [sent |-> receivedSize', total |-> totalSize],
                             now)
    /\ UNCHANGED <<txUi, txRtc, txCall, sentLog, rxDc, receivedFileName,
                   receivedFileType, totalSize, rxErrors,
                   rxSeen, rxMode, rxStatus, rxConn, rxFiles,
                   rxHistory, rxDownloads, env, txMeter>>

\* A binary-message handler that keeps the size of the last chunk in place
\* of the sum.
RxChunkLastSize ==
    /\ rxDc = "open" /\ wire # <<>>
    /\ Head(wire).type = "chunk"
    /\ wire' = Tail(wire)
    /\ receivedChunks' = Append(receivedChunks, Head(wire).data)
    /\ receivedSize' = ByteLength(Head(wire).data)
    /\ rxProgress' = [sent |-> receivedSize', total |-> totalSize,
                      percentage |-> Percentage(receivedSize', totalSize)]
    /\ rxMeter' = onProgress(rxMeter,
                             [sent |-> receivedSize', total |-> totalSize],
                             now)
    /\ UNCHANGED <<txUi, txRtc, txCall, sentLog, rxDc, receivedFileName,
                   receivedFileType, totalSize, rxDecrypting, rxErrors,
                   rxSeen, rxMode, rxStatus, rxConn, rxFiles,
                   rxHistory, rxDownloads, env, txMeter>>

\* handleDataChannelMessage, a binary message.
RxChunk ==
    /\ rxDc = "open" /\ wire # <<>>
    /\ Head(wire).type = "chunk"
    /\ wire' = Tail(wire)
    /\ receivedChunks' = Append(receivedChunks, Head(wire).data)
    /\ receivedSize' = receivedSize + ByteLength(Head(wire).data)
    /\ rxProgress' = [sent |-> receivedSize', total |-> totalSize,
                      percentage |-> Percentage(receivedSize', totalSize)]
    /\ rxMeter' = onProgress(rxMeter,
                             [sent |-> receivedSize', total |-> totalSize],
                             now)
    /\ UNCHANGED <<txUi, txRtc, txCall, sentLog, rxDc, receivedFileName,
                   receivedFileType, totalSize, rxDecrypting, rxErrors,
                   rxSeen, rxMode, rxStatus, rxConn, rxFiles,
                   rxHistory, rxDownloads, env, txMeter>>

\* handleDataChannelMessage, an end message: reassembleFile up to its await
\* of decryptData.  The receiver's key is set by handleReceiveMode.
RxEnd ==
    /\ rxDc = "open" /\ wire # <<>>
    /\ Head(wire).type = "end"
    /\ wire' = Tail(wire)
    /\ LET combined == Combine(receivedChunks)
       IN rxDecrypting' = Append(rxDecrypting,
                                 [iv |-> ExtractIv(combined),
                                  encryptedData |-> ExtractData(combined)])
    /\ rxSeen' = [rxSeen EXCEPT !.end = @ + 1]
    /\ UNCHANGED <<txUi, txRtc, txCall, sentLog, rxDc, receivedChunks,
                   receivedFileName, receivedFileType, totalSize,
                   receivedSize, rxErrors, rxUi, env, meters>>

\* handleDataChannelMessage, any other string: parsed and dropped.
RxOther ==
    /\ rxDc = "open" /\ wire # <<>>
    /\ Head(wire).type \notin {"metadata", "chunk", "end"}
    /\ wire' = Tail(wire)
    /\ UNCHANGED <<txUi, txRtc, txCall, sentLog, rxRtc, rxUi, env, meters>>

Remove(seq, j) == SubSeq(seq, 1, j - 1) \o SubSeq(seq, j + 1, Len(seq))

\* The File reassembleFile creates from the decrypted data; name and type
\* are read from the receiver's fields when decryptData has resolved.
ReceivedFile(plain, name, type) ==
    [name |-> name, type |-> type, f |-> plain.f, size |-> plain.len]

\* A reassembleFile that hands a file to the callback whatever decryptData's
\* outcome.
ReassembledAnyway(outcome, name, type) ==
    <<ReceivedFile(outcome, name, type)>>

\* What reassembleFile does with decryptData's outcome: the file to hand to
\* the onFileReceived callback, or none when decryptData threw.
Reassembled(outcome, name, type) ==
    IF outcome.ok THEN <<ReceivedFile(outcome, name, type)>> ELSE <<>>

\* The history record the onFileReceived callback writes.
ReceivedRecord(file) ==
    [fileName |-> file.name, fileSize |-> file.size, type |-> "received",
     status |-> "completed"]

\* decryptData settles for one pending reassembleFile.  On success the file
\* goes to the onFileReceived callback, which sets the status, writes the
\* history record and triggers the download; on failure the catch block logs
\* the error.  The callback's await of storageService.addTransfer and the
\* download after it touch nothing but the history and the downloads, so
\* they are taken in the same step; when addTransfer rejects, the callback
\* ends at its await and neither happens.
DecryptSettles(j) ==
    /\ j \in 1..Len(rxDecrypting)
    /\ rxDecrypting' = Remove(rxDecrypting, j)
    /\ LET job == rxDecrypting[j]
           outcome == decryptData(job.encryptedData, SessionKey, job.iv)
           out == Reassembled(outcome, receivedFileName, receivedFileType)
       IN IF out # <<>>
          THEN /\ rxFiles' = rxFiles \o out
               /\ rxStatus' = "completed"
               /\ IF storageOk
                  THEN /\ rxHistory' =
                            Append(rxHistory, ReceivedRecord(out[1]))
                       /\ rxDownloads' = rxDownloads \o out
                  ELSE UNCHANGED <<rxHistory, rxDownloads>>
               /\ UNCHANGED rxErrors
          ELSE /\ rxErrors' = rxErrors + 1
               /\ UNCHANGED <<rxFiles, rxStatus, rxHistory, rxDownloads>>
    /\ UNCHANGED <<txUi, txRtc, txCall, chan, rxDc, receivedChunks,
                   receivedFileName, receivedFileType, totalSize,
                   receivedSize, rxSeen, rxMode, rxProgress, rxConn, env,
                   meters>>

(***************************************************************************)
(* Connection events, closing and reset.                                   *)
(***************************************************************************)
\* The status an onConnectionState callback leaves.
StatusOnState(state, status) ==
    IF state \in {"connected", "failed"} THEN state ELSE status

\* onconnectionstatechange on the sender (handleSendMode's callback).
TxConnectionState(state) ==
    /\ txDc # "null" /\ TxScriptIdle
    /\ txConn' = state
    /\ txStatus' = StatusOnState(state, txStatus)
    /\ UNCHANGED <<txMode, selectedFiles, txProgress, txIsPaused, txRtc,
                   txCall, chan, rxRtc, rxUi, env, meters>>

\* onconnectionstatechange on the receiver (handleReceiveMode's callback).
RxConnectionState(state) ==
    /\ rxDc # "null"
    /\ rxConn' = state
    /\ rxStatus' = StatusOnState(state, rxStatus)
    /\ UNCHANGED <<txUi, txRtc, txCall, chan, rxRtc, rxMode, rxProgress,
                   rxFiles, rxHistory, rxDownloads, env, meters>>

\* The peer connection is established: each peer is told once.
TxConnected == txConn = "disconnected" /\ TxConnectionState("connected")
RxConnected == rxConn = "disconnected" /\ RxConnectionState("connected")

\* The peer connection loses its transport for a while (connectionState
\* 'disconnected'); TxConnected / RxConnected is its recovery.
TxDisconnected == txConn = "connected" /\ TxConnectionState("disconnected")
RxDisconnected == rxConn = "connected" /\ RxConnectionState("disconnected")

\* The peer connection is lost for good.
TxConnectionFailed == txConn # "failed" /\ TxConnectionState("failed")
RxConnectionFailed == rxConn # "failed" /\ RxConnectionState("failed")

\* The data channel opens on both peers, once they are connected (onopen
\* only logs).
ChannelOpens ==
    /\ txDc = "connecting" /\ rxDc = "connecting"
    /\ txConn = "connected" /\ rxConn = "connected"
    /\ TxScriptIdle
    /\ txDc' = "open" /\ rxDc' = "open"
    /\ UNCHANGED <<txUi, isPaused, bufferedAmount, txCall, chan,
                   receivedChunks, receivedFileName, receivedFileType,
                   totalSize, receivedSize, rxDecrypting, rxErrors, rxSeen,
                   rxUi, env, meters>>

\* The data channel closes under both peers (the connection is lost);
\* messages not yet delivered are lost with it.  onclose only logs.
ChannelCloses ==
    /\ txDc = "open" /\ rxDc = "open"
    /\ TxScriptIdle
    /\ txDc' = "closed" /\ rxDc' = "closed"
    /\ wire' = <<>>
    /\ UNCHANGED <<txUi, isPaused, bufferedAmount, txCall, sentLog,
                   receivedChunks, receivedFileName, receivedFileType,
                   totalSize, receivedSize, rxDecrypting, rxErrors, rxSeen,
                   rxUi, env, meters>>

\* The state of a peer's channel once the other peer has closed its end.
RemoteClosed(dc) == IF dc = "null" THEN "null" ELSE "closed"

\* handleReset on the sender (the Home button): close() on the WebRTCTransfer,
\* then every piece of page state back to its initial value.
TxReset ==
    /\ txMode = "sender" /\ TxScriptIdle
    /\ txDc' = "null" /\ rxDc' = RemoteClosed(rxDc)
    /\ wire' = <<>>
    /\ txMode' = "null" /\ txStatus' = "idle" /\ selectedFiles' = <<>>
    /\ txProgress' = ZeroProgress /\ txConn' = "disconnected"
    /\ txIsPaused' = FALSE
    /\ txMeter' = ZeroMeter
    /\ UNCHANGED <<isPaused, bufferedAmount, txCall, sentLog, receivedChunks,
                   receivedFileName, receivedFileType, totalSize,
                   receivedSize, rxDecrypting, rxErrors, rxSeen, rxUi, env,
                   rxMeter>>

\* handleReset on the receiver.
RxReset ==
    /\ rxMode = "receiver" /\ TxScriptIdle
    /\ rxDc' = "null" /\ txDc' = RemoteClosed(txDc)
    /\ wire' = <<>>
    /\ rxMode' = "null" /\ rxStatus' = "idle"
    /\ rxProgress' = ZeroProgress /\ rxConn' = "disconnected"
    /\ rxMeter' = ZeroMeter
    /\ UNCHANGED <<txUi, isPaused, bufferedAmount, txCall, sentLog,
                   receivedChunks, receivedFileName, receivedFileType,
                   totalSize, receivedSize, rxDecrypting, rxErrors, rxSeen,
                   rxFiles, rxHistory, rxDownloads, env, txMeter>>

(***************************************************************************)
(* The resumable state of a session and its reload after a restart.        *)
(***************************************************************************)
\* A save into a store that has no key: every state saved is one more record.
saveTransferStateAdded(store, state) == store \cup {state}

\* saveTransferState(state): objectStore.put, an upsert keyed by sessionId.
saveTransferState(store, state) ==
    {t \in store : t.sessionId # state.sessionId} \cup {state}

\* What a call of saveTransferState(state) leaves of the calls made on the
\* session's record.
AfterSave(entry, state) ==
    [state |-> {state},
     call |-> IF entry.state = {} THEN "saved"
              ELSE IF entry.state = {state} THEN entry.call
              ELSE "replaced"]

\* What a call of deleteTransferState leaves of them.
AfterDelete == [state |-> {}, call |-> "deleted"]

\* getTransferState(sessionId): the record of that key, none when absent.
getTransferState(store, sessionId) ==
    {t \in store : t.sessionId = sessionId}

\* The place in combinedData a chunk starts at.
ChunkStart(data) ==
    IF Head(data).kind = "iv" THEN Head(data).from
    ELSE IV_LENGTH + Head(data).from

\* The file a chunk's ciphertext bytes are of.
FileOfChunk(data) == data[Len(data)].id.f

\* The chunks of the i-th file the sender's loop has got past: all of them
\* for a file already left, none before the loop of the present file is
\* entered, and those below the loop's offset otherwise.
CompletedChunks(i) ==
    IF i < txIdx THEN TotalChunks(txFiles[i])
    ELSE IF i = txIdx /\ txPc \in {"loop", "waiting", "next", "history", "done"}
         THEN (offset + CHUNK_SIZE - 1) \div CHUNK_SIZE
         ELSE 0

\* ChunkState.sent of the k-th chunk of the i-th file: the chunk has been
\* handed to the channel.
ChunkSent(i, k) ==
    \E p \in 1..Len(sentLog) :
        /\ sentLog[p].type = "chunk"
        /\ FileOfChunk(sentLog[p].data) = txFiles[i].f
        /\ ChunkStart(sentLog[p].data) = (k - 1) * CHUNK_SIZE

\* FileTransferState.isCompleted of the i-th file: its end has been sent.
EndSent(i) ==
    Cardinality({p \in 1..Len(sentLog) : sentLog[p].type = "end"}) >= i

\* MultiFileTransferState.currentFileIndex, counted from 1: the file being
\* sent, and one past the last once sendFiles has gone through them all.
CurrentFileIndex ==
    IF txPc \in {"history", "done"} THEN Len(txFiles) + 1 ELSE txIdx

\* The MultiFileTransferState of the running session.
SessionState ==
    [sessionId |-> SessionId,
     files |-> [i \in 1..Len(txFiles) |->
                  [fileName |-> txFiles[i].name,
                   fileSize |-> txFiles[i].size,
                   chunks |-> [k \in 1..TotalChunks(txFiles[i]) |->
                                 [chunkIndex |-> k - 1,
                                  totalChunks |-> TotalChunks(txFiles[i]),
                                  sent |-> ChunkSent(i, k)]],
                   totalChunks |-> TotalChunks(txFiles[i]),
                   completedChunks |-> CompletedChunks(i),
                   isCompleted |-> EndSent(i)]],
     currentFileIndex |-> CurrentFileIndex,
     totalFiles |-> Len(txFiles),
     isPaused |-> isPaused,
     lastUpdateTime |-> now]

\* The state of the paused session is saved, before any restart.
SaveState ==
    /\ isPaused /\ txPc \in {"reading", "encrypting", "waiting"}
    /\ resumeMark < 0
    /\ SessionState \notin transferStates
    /\ transferStates' = saveTransferState(transferStates, SessionState)
    /\ lastSaved' = [lastSaved EXCEPT
                        ![SessionId] = AfterSave(@, SessionState)]
    /\ UNCHANGED <<txUi, txRtc, txCall, chan, rxRtc, rxUi, toggles, tampered,
                   resumeMark, now, storageOk, law, sweep, txSuspended,
                   rxSetup, meters>>

\* The paused sender restarts once its state is saved: the page and its
\* WebRTCTransfer are new, the running call is gone, the store is kept.  The
\* peers are taken to be connected again under the same key.
Restart ==
    /\ isPaused /\ txPc \in {"reading", "encrypting", "waiting"}
    /\ SessionState \in transferStates
    /\ resumeMark < 0
    /\ txPc' = "restarted"
    /\ txStatus' = "connected" /\ txProgress' = ZeroProgress
    /\ txIsPaused' = FALSE /\ isPaused' = FALSE /\ bufferedAmount' = 0
    /\ txFiles' = <<>> /\ txIdx' = 0 /\ combinedData' = <<>> /\ offset' = 0
    /\ txMeter' = ZeroMeter
    /\ UNCHANGED <<txMode, selectedFiles, txConn, txDc, ivCtr, txIv,
                   txHistory, chan, rxRtc, rxUi, env, rxMeter>>

\* The restarted sender reloads the state with getTransferState and resumes:
\* sendFiles(files, states) goes on from the state's current file, handing
\* each file to sendFile.  resumeMark keeps the number of messages sent
\* before.
ResumeFromState ==
    /\ txPc = "restarted"
    /\ \E state \in getTransferState(transferStates, SessionId) :
          /\ txFiles' = selectedFiles
          /\ SendFileBegin(selectedFiles, state.currentFileIndex,
                           "transferring")
    /\ resumeMark' = Len(sentLog)
    /\ UNCHANGED <<txMode, selectedFiles, txProgress, txConn, txIsPaused,
                   txDc, isPaused, ivCtr, txIv, combinedData, offset,
                   txHistory, rxRtc, rxUi, toggles, tampered,
                   transferStates, aux, meters>>

(***************************************************************************)
(* The channel.                                                            *)
(***************************************************************************)
\* The user agent has handed the buffered data to the transport: the sender's
\* script sees bufferedAmount back at zero.  Only the chunk loop reads it, so the
\* updates outside a running sendFile are left out.
Drain ==
    /\ txPc \in {"reading", "encrypting", "waiting"}
    /\ bufferedAmount > 0
    /\ bufferedAmount' = 0
    /\ UNCHANGED <<txUi, txDc, isPaused, txCall, chan, rxRtc, rxUi, env,
                   meters>>

\* The IV call a chunk's first bytes stem from.
CallOf(data) ==
    IF Head(data).kind = "iv" THEN Head(data).id ELSE Head(data).id.n

\* The same number of bytes, at least one bit of them altered.
Altered(data) ==
    <<[kind |-> "junk", id |-> 0, from |-> 0, to |-> ByteLength(data)]>>

\* One binary message of the session is altered in transit.
Tamper ==
    /\ wire # <<>>
    /\ Head(wire).type = "chunk"
    /\ tampered = {}
    /\ tampered' = tampered \cup {CallOf(Head(wire).data)}
    /\ wire' = <<ChunkMsg(Altered(Head(wire).data))>> \o Tail(wire)
    /\ UNCHANGED <<txUi, txRtc, txCall, sentLog, rxRtc, rxUi, toggles,
                   resume, aux, meters>>

(***************************************************************************)
(* Specification.                                                          *)
(***************************************************************************)
\* The peers connect and the channel opens.
Connecting == TxConnected \/ RxConnected \/ ChannelOpens

\* The steps of the sender's handleStartTransfer call.
Sending ==
    \/ HandleStartTransfer \/ FileRead \/ Encrypted
    \/ SendChunk \/ BufferWait \/ TimerFires \/ SendEnd
    \/ NextFile \/ TxAddTransfer
    \/ Drain

\* The steps of the receiver's message handler.
Receiving ==
    \/ RxMetadata \/ RxChunk \/ RxEnd
    \/ (\E j \in 1..MaxFiles : DecryptSettles(j))

\* The steps of a transfer over a channel that stays up.
Transfer == Connecting \/ Sending \/ Receiving

\* A session in which the sender may pause and resume.
Next == Transfer \/ HandlePauseResume \/ RxOther

Spec == Init /\ [][Next]_vars

\* A session in which messages may be altered in transit.
NextTamper == Transfer \/ Tamper

SpecTamper == Init /\ [][NextTamper]_vars

\* A session that may be cut: the channel closes, the connection fails, a
\* peer resets.
NextCancel ==
    \/ Transfer \/ SendThrows
    \/ ChannelCloses \/ TxReset \/ RxReset
    \/ TxConnectionFailed \/ RxConnectionFailed

SpecCancel == Init /\ [][NextCancel]_vars

\* Scenario B: a session of three files, the second of ten chunks, in which
\* the paused sender's state is saved, the sender restarts and resumes.
\* Nothing flows back from the receiver, whose steps are left out: the
\* messages sent stay in the channel.
(***************************************************************************)
(* The chunk loop of sendFile and the concatenation of reassembleFile on   *)
(* any buffer and any chunk size.                                          *)
(***************************************************************************)
\* The buffers: two runs of bytes of up to MaxLen bytes together.
LawBuffers ==
    {Norm(<<[kind |-> "bytes", id |-> 1, from |-> 0, to |-> a],
            [kind |-> "bytes", id |-> 2, from |-> 0, to |-> b]>>) :
        a \in 0..2, b \in 0..(MaxLen - 2)}

\* The loop is entered with a buffer and a chunk size, at offset 0.
LawBegin ==
    /\ law = NoLaw
    /\ \E data \in LawBuffers, size \in 1..MaxChunk :
          law' = [data |-> data, size |-> size, offset |-> 0,
                  slices |-> <<>>]
    /\ UNCHANGED <<txUi, txRtc, txCall, chan, rxRtc, rxUi, toggles, tampered,
                   resume, now, storageOk, sweep, txSuspended,
                   rxSetup, lastSaved,
                   meters>>

\* One turn of the loop: while (offset < length) the slice at the offset is
\* emitted and the offset advanced by its length.
LawChunk ==
    /\ law.size > 0
    /\ law.offset < ByteLength(law.data)
    /\ LET chunk == ChunkOfSize(law.data, law.offset, law.size)
       IN law' = [law EXCEPT !.offset = NextOffset(@, chunk),
                             !.slices = Append(@, chunk)]
    /\ UNCHANGED <<txUi, txRtc, txCall, chan, rxRtc, rxUi, toggles, tampered,
                   resume, now, storageOk, sweep, txSuspended,
                   rxSetup, lastSaved,
                   meters>>

\* IndexedDB stops serving requests (the database is gone or its requests
\* fail): every later storage call rejects.
StorageBreaks ==
    /\ storageOk
    /\ storageOk' = FALSE
    /\ UNCHANGED <<txUi, txRtc, txCall, chan, rxRtc, rxUi, toggles, tampered,
                   resume, now, law, sweep, txSuspended,
                   rxSetup, lastSaved,
                   meters>>

(***************************************************************************)
(* The clock and the retention sweep of the transferStates store.          *)
(***************************************************************************)
\* Time passes: Date.now() is d ms later.
Tick(d) ==
    /\ now + d <= 1 + MaxTicks * d
    /\ now' = now + d
    /\ UNCHANGED <<txUi, txRtc, txCall, chan, rxRtc, rxUi, toggles, tampered,
                   resume, storageOk, law, sweep, txSuspended,
                   rxSetup, lastSaved,
                   meters>>

\* deleteTransferState(sessionId): objectStore.delete of that key.
deleteTransferState(store, sessionId) ==
    {t \in store : t.sessionId # sessionId}

\* getAllTransferStates(): objectStore.getAll.
getAllTransferStates(store) == store

\* The sweep's test with the boundary age taken as expired.
ExpiredFromAge(state, t, maxAge) == t - state.lastUpdateTime >= maxAge

\* The sweep's test on one state: now - state.lastUpdateTime > maxAge.
Expired(state, t, maxAge) == t - state.lastUpdateTime > maxAge

\* The sweep's loop: the states in turn, each expired one deleted by its key.
RECURSIVE SweepLoop(_, _, _, _)
SweepLoop(store, states, t, maxAge) ==
    IF states = {} THEN store
    ELSE LET state == CHOOSE x \in states : TRUE
             rest == states \ {state}
         IN IF Expired(state, t, maxAge)
            THEN SweepLoop(deleteTransferState(store, state.sessionId),
                           rest, t, maxAge)
            ELSE SweepLoop(store, rest, t, maxAge)

\* clearOldTransferStates(maxAge) called at time t.
clearOldTransferStates(store, t, maxAge) ==
    SweepLoop(store, getAllTransferStates(store), t, maxAge)

\* The default maxAge of the sweep: 24 hours in ms.
DefaultMaxAge == 24 * 60 * 60 * 1000

\* The state of a session is saved at the present time.
StateSaved ==
    /\ storageOk
    /\ \E id \in SweepSessions :
          LET state == [SessionState EXCEPT !.sessionId = id]
          IN /\ transferStates' = saveTransferState(transferStates, state)
             /\ lastSaved' = [lastSaved EXCEPT ![id] = AfterSave(@, state)]
    /\ UNCHANGED <<txUi, txRtc, txCall, chan, rxRtc, rxUi, toggles, tampered,
                   resumeMark, now, storageOk, law, sweep, txSuspended,
                   rxSetup, meters>>

\* The history store holds the record of a file sent in an earlier run.
TransferRecorded ==
    /\ storageOk
    /\ txHistory = <<>>
    /\ txHistory' = Append(txHistory, SentRecord(selectedFiles[1]))
    /\ UNCHANGED <<txUi, txRtc, txPc, txFiles, txIdx, ivCtr, txIv,
                   combinedData, offset, chan, rxRtc, rxUi, env, meters>>

\* One call of clearOldTransferStates, with the default maxAge or with 0.
Sweep ==
    /\ storageOk
    /\ sweep.calls < MaxSweeps
    /\ \E maxAge \in {0, DefaultMaxAge} :
          /\ transferStates' =
                 clearOldTransferStates(transferStates, now, maxAge)
          /\ sweep' = [calls |-> sweep.calls + 1, maxAge |-> maxAge,
                       at |-> now]
          /\ lastSaved' =
                 [id \in SweepSessions |->
                     IF \E state \in lastSaved[id].state :
                           Expired(state, now, maxAge)
                     THEN AfterDelete ELSE lastSaved[id]]
    /\ UNCHANGED <<txUi, txRtc, txCall, chan, rxRtc, rxUi, toggles, tampered,
                   resumeMark, now, storageOk, law, txSuspended,
                   rxSetup,
                   meters>>

\* A call of deleteTransferState on a session's id.
StateDeleted ==
    /\ storageOk
    /\ \E id \in SweepSessions :
          /\ transferStates' = deleteTransferState(transferStates, id)
          /\ lastSaved' = [lastSaved EXCEPT ![id] = AfterDelete]
    /\ UNCHANGED <<txUi, txRtc, txCall, chan, rxRtc, rxUi, toggles, tampered,
                   resumeMark, now, storageOk, law, sweep, txSuspended,
                   rxSetup, meters>>

\* The calls made on the transferStates store while the clock runs.
NextStore ==
    \/ StateSaved \/ StateDeleted \/ Sweep
    \/ \E d \in {1, DefaultMaxAge} : Tick(d)

SpecStore == Init /\ [][NextStore]_vars

NextSweep ==
    \/ StateSaved
    \/ TransferRecorded
    \/ \E d \in {1, DefaultMaxAge} : Tick(d)
    \/ Sweep
SpecSweep == Init /\ [][NextSweep]_vars

(***************************************************************************)
(* The receiver's setup on a pasted payload.                               *)
(***************************************************************************)
\* The key strings a payload may hold: one atob rejects, and strings that
\* decode to so many bytes (32 is the 256-bit key the sender exports).
KeyStrings ==
    {[base64 |-> FALSE, bytes |-> 0]}
        \cup {[base64 |-> TRUE, bytes |-> n] : n \in {0, 16, 24, 31, 32, 33}}

\* importKey(keyString): the outcomes it can have (TRUE: it resolves).  atob
\* throws on a string that is not base64; crypto.subtle.importKey('raw', ...)
\* of AES-GCM takes the key's size from the data, ignores the length member
\* of the algorithm, resolves for 128 and 256 bits, resolves or rejects for
\* 192 bits depending on the browser, and rejects any other size.
importKey(keyString) ==
    IF ~keyString.base64 THEN {FALSE}
    ELSE IF keyString.bytes \in {16, 32} THEN {TRUE}
    ELSE IF keyString.bytes = 24 THEN {TRUE, FALSE}
    ELSE {FALSE}

\* handleReceiveMode on a payload, up to its await of importKey.
HandleReceiveMode ==
    /\ rxSetup.pc = "idle"
    /\ \E keyString \in KeyStrings, n \in 0..MaxCandidates :
          rxSetup' = [rxSetup EXCEPT !.pc = "importing", !.key = keyString,
                                     !.ice = n, !.status = "connecting"]
    /\ UNCHANGED <<txUi, txRtc, txCall, chan, rxRtc, rxUi, toggles, tampered,
                   resume, now, storageOk, law, sweep, txSuspended,
                   lastSaved, meters>>

\* importKey settles: the key is set and handleOffer called, or the catch
\* block sets the status.
ImportKeySettles ==
    /\ rxSetup.pc = "importing"
    /\ \E ok \in importKey(rxSetup.key) :
          rxSetup' = IF ok THEN [rxSetup EXCEPT !.pc = "offer"]
                     ELSE [rxSetup EXCEPT !.pc = "failed",
                                          !.status = "failed"]
    /\ UNCHANGED <<txUi, txRtc, txCall, chan, rxRtc, rxUi, toggles, tampered,
                   resume, now, storageOk, law, sweep, txSuspended,
                   lastSaved, meters>>

\* handleOffer resolves with the answer.
HandleOfferSettles ==
    /\ rxSetup.pc = "offer"
    /\ rxSetup' = [rxSetup EXCEPT
                      !.answers = @ + 1,
                      !.pc = IF rxSetup.ice = 0 THEN "done" ELSE "ice",
                      !.status = IF rxSetup.ice = 0 THEN "connected" ELSE @]
    /\ UNCHANGED <<txUi, txRtc, txCall, chan, rxRtc, rxUi, toggles, tampered,
                   resume, now, storageOk, law, sweep, txSuspended,
                   lastSaved, meters>>

\* One addIceCandidate of the loop resolves; after the last the status is
\* set.
AddIceCandidateSettles ==
    /\ rxSetup.pc = "ice"
    /\ rxSetup' = [rxSetup EXCEPT
                      !.added = @ + 1,
                      !.pc = IF rxSetup.added + 1 = rxSetup.ice
                             THEN "done" ELSE "ice",
                      !.status = IF rxSetup.added + 1 = rxSetup.ice
                                 THEN "connected" ELSE @]
    /\ UNCHANGED <<txUi, txRtc, txCall, chan, rxRtc, rxUi, toggles, tampered,
                   resume, now, storageOk, law, sweep, txSuspended,
                   lastSaved, meters>>

NextSetup ==
    \/ HandleReceiveMode \/ ImportKeySettles
    \/ HandleOfferSettles \/ AddIceCandidateSettles
SpecSetup == Init /\ [][NextSetup]_vars

(***************************************************************************)
(* The receiver under a remote peer that sends what it likes.              *)
(***************************************************************************)
\* The files the remote peer sends: two empty ones.
PeerFiles == <<FileOf(1, 0), FileOf(2, 0)>>

\* A binary message of fewer bytes than an IV.
ShortBytes == <<[kind |-> "junk", id |-> 0, from |-> 0, to |-> 5]>>

\* The whole of file i as one binary message: its IV and its ciphertext.
Envelope(i) ==
    LET e == encryptData(PeerFiles[i].f, PeerFiles[i].size, SessionKey, i)
    IN CombineIvAndData(e.iv, e.encrypted)

\* event.data of dataChannel.onmessage: what a remote peer may send.
PeerMessages ==
    {MetadataMsg(PeerFiles[i]) : i \in 1..Len(PeerFiles)}
      \cup {ChunkMsg(Envelope(i)) : i \in 1..Len(PeerFiles)}
      \cup {ChunkMsg(ShortBytes), EndMsg, [type |-> "pause"]}

\* The remote peer sends one more message.  Messages are handled one at a
\* time in the order sent, so the peer is let send once the last one has
\* been handled.
PeerSends ==
    /\ rxDc = "open" /\ wire = <<>>
    /\ Len(sentLog) < MaxPeerMsgs
    /\ \E m \in PeerMessages :
          /\ wire' = <<m>>
          /\ sentLog' = Append(sentLog, m)
    /\ UNCHANGED <<txUi, txRtc, txCall, rxRtc, rxUi, env, meters>>

NextPeer ==
    \/ Connecting \/ PeerSends
    \/ RxMetadata \/ RxChunk \/ RxEnd \/ RxOther
    \/ (\E j \in 1..MaxPeerMsgs : DecryptSettles(j))

SpecPeer == InitWith(PeerFiles) /\ [][NextPeer]_vars

\* The session with the clock running between the steps.
NextMetrics == Transfer \/ \E d \in {50, 200} : Tick(d)
SpecMetrics == Init /\ [][NextMetrics]_vars

\* The sender's side of a session whose state is saved while it is paused.
\* The session of ScenarioRule with the clock going: its files never fill
\* the buffer, so the loop never waits.
NextRule ==
    \/ Connecting
    \/ HandleStartTransfer \/ FileRead \/ Encrypted \/ SendChunk \/ SendEnd
    \/ NextFile \/ TxAddTransfer \/ Drain
    \/ Receiving
    \/ \E d \in {50, 200} : Tick(d)
SpecRule == InitWith(ScenarioRule) /\ [][NextRule]_vars

\* A session whose connection may be lost for a while and come back.
NextReconnect == Transfer \/ TxDisconnected \/ RxDisconnected
SpecReconnect == Init /\ [][NextReconnect]_vars

\* The continuations of the running handleStartTransfer call: at most one
\* of them can run at a time.
Script ==
    \/ FileRead \/ Encrypted
    \/ SendChunk \/ BufferWait \/ TimerFires \/ SendEnd
    \/ NextFile \/ TxAddTransfer

\* The sender's side of the session of Scenario B over a channel that stays
\* open, with pauses.  The continuation of the sender's script runs once it can (a
\* resolved promise or a timer that has fired is run by the event loop), and
\* the channel's buffer is emptied again and again while the loop waits
\* for it.
NextLive == Connecting \/ Sending \/ HandlePauseResume
Fairness == WF_vars(Script) /\ SF_vars(Drain)
SpecLive == InitWith(ScenarioB) /\ [][NextLive]_vars /\ Fairness

\* A paused session whose state is saved.
NextSnapshot == Connecting \/ Sending \/ HandlePauseResume \/ SaveState
SpecSnapshot == InitWith(ScenarioB) /\ [][NextSnapshot]_vars

NextStorage == Transfer \/ StorageBreaks
SpecStorage == Init /\ [][NextStorage]_vars

NextChunking == LawBegin \/ LawChunk
SpecChunking == Init /\ [][NextChunking]_vars

\* Scenario A: the sender's side of the session of the single 1 MiB file.
NextScenarioA == Connecting \/ Sending
SpecScenarioA == InitWith(ScenarioA) /\ [][NextScenarioA]_vars

NextRestart ==
    \/ Connecting \/ Sending \/ HandlePauseResume
    \/ SaveState \/ Restart \/ ResumeFromState

SpecRestart == InitWith(ScenarioB) /\ [][NextRestart]_vars

(***************************************************************************)
(* Properties.                                                             *)
(***************************************************************************)
\* The messages of one type in a sequence of messages.
CountType(seq, type) == Cardinality({p \in 1..Len(seq) : seq[p].type = type})

\* The received files that carry the content of the sender's i-th file.
Surfaced(i) == {j \in 1..Len(rxFiles) : rxFiles[j].f = i}

\* C1: over a channel that delivers every message unaltered, each file whose
\* end the receiver has handled and whose decryption has settled is surfaced
\* exactly once, with the content and the length of the sender's file; no
\* decryption fails.
EndToEndReconstruction ==
    /\ rxErrors = 0
    /\ \A j \in 1..Len(rxFiles) :
          /\ rxFiles[j].f \in 1..rxSeen.end
          /\ rxFiles[j].size = txFiles[rxFiles[j].f].size
    /\ \A i \in 1..Len(txFiles) : Cardinality(Surfaced(i)) <= 1
    /\ rxDecrypting = <<>> =>
          \A i \in 1..rxSeen.end : Cardinality(Surfaced(i)) = 1

\* C1 witness: two files, one of them of three chunks with a one-byte tail,
\* have been sent and surfaced.
EndToEndReached ==
    /\ txPc = "done" /\ wire = <<>> /\ rxDecrypting = <<>>
    /\ Len(rxFiles) = 2
    /\ \E j \in 1..2 : rxFiles[j].size > CHUNK_SIZE
    /\ \E j \in 1..2 : rxFiles[j].size = 0

\* The binary messages sent for the i-th file, in the order sent.
ChunksOf(i) ==
    LET IsChunkOf(m) == m.type = "chunk" /\ CallOf(m.data) = i
    IN SelectSeq(sentLog, IsChunkOf)

EndIsOnlyOracle ==
    Len(rxFiles) + rxErrors + Len(rxDecrypting) = rxSeen.end

\* C3 witness: the bytes received exceed the size the metadata declared, no
\* end has been handled and nothing is surfaced.
BytesReachedWithoutEnd ==
    /\ rxSeen.end = 0 /\ totalSize > 0 /\ receivedSize >= totalSize
    /\ rxFiles = <<>> /\ rxDecrypting = <<>>

\* Whether a log of sent messages is, file after file in the order of the
\* manifest, one metadata, the file's chunks, one end; i is the file last
\* begun and open tells whether its end is still to come.
RECURSIVE InOrder(_, _, _, _)
InOrder(log, files, i, open) ==
    IF log = <<>> THEN TRUE
    ELSE LET m == Head(log)
         IN CASE m.type = "metadata" ->
                   /\ ~open /\ i < Len(files)
                   /\ m.name = files[i + 1].name
                   /\ InOrder(Tail(log), files, i + 1, TRUE)
              [] m.type = "chunk" ->
                   /\ open /\ CallOf(m.data) = i
                   /\ InOrder(Tail(log), files, i, TRUE)
              [] m.type = "end" ->
                   /\ open
                   /\ InOrder(Tail(log), files, i, FALSE)
              [] OTHER -> FALSE

SessionCompletedWhenAllFiles ==
    /\ txStatus = "completed" => CountType(sentLog, "end") = Len(txFiles)
    /\ rxStatus = "completed" =>
          \A i \in 1..Len(selectedFiles) : Surfaced(i) # {}

\* C6: once the decryption of a file has failed, the receiver shows the
\* status failed.
DecryptFailureReported == rxErrors > 0 => rxStatus = "failed"

\* C7: a file whose bytes were altered in transit is never surfaced: every
\* file handed to the callback is a whole file of the sender no message of
\* which was altered, the history and the downloads hold the surfaced files
\* and nothing else, and once no decryption is pending each altered file
\* whose end was handled counts as one failure.
NoOutputOnDecryptFailure ==
    /\ \A j \in 1..Len(rxFiles) :
          /\ rxFiles[j].f \in (1..Len(txFiles)) \ tampered
          /\ rxFiles[j].size = txFiles[rxFiles[j].f].size
    /\ rxDownloads = rxFiles
    /\ Len(rxHistory) = Len(rxFiles)
    /\ \A j \in 1..Len(rxHistory) :
          rxHistory[j].fileSize = rxFiles[j].size
    /\ rxDecrypting = <<>> =>
          rxErrors = Cardinality(tampered \cap 1..rxSeen.end)

\* C7 witness: of two files sent, the one altered in transit has failed to
\* decrypt and the other one is surfaced.
AlteredFileDropped ==
    /\ txPc = "done" /\ wire = <<>> /\ rxDecrypting = <<>>
    /\ Len(txFiles) = 2 /\ tampered # {}
    /\ rxErrors = 1 /\ Len(rxFiles) = 1 /\ Len(rxHistory) = 1

\* C8: while the sender is paused its loop sends no chunk, and a pause or a
\* resume leaves the data channel as it is.
PauseStopsChunks ==
    [][/\ isPaused =>
            CountType(sentLog', "chunk") = CountType(sentLog, "chunk")
       /\ isPaused' # isPaused => (txDc' = txDc /\ rxDc' = rxDc)]_vars

\* C10: when the data channel closes while the receiver has a file in
\* progress, the receiver shows the status failed, and it surfaces nothing
\* of the partly received file.
CancelFailsTransfer ==
    /\ (rxDc = "closed" /\ rxSeen.metadata > rxSeen.end) =>
          rxStatus = "failed"
    /\ Len(rxFiles) + rxErrors + Len(rxDecrypting) <= rxSeen.end

\* C9: in Scenario B, once the sender has resumed from the state saved when
\* the second file was paused after 5 of its 10 chunks, the chunks of the
\* second file sent from then on have the indices 5 to 9, nothing of the
\* first file is sent again, and the third file begins right after the end
\* of the second, whose last chunk has gone out.
ResumeAfterRestart ==
    \A state \in transferStates :
        (/\ resumeMark >= 0
         /\ state.totalFiles = 3 /\ state.currentFileIndex = 2
         /\ state.files[2].totalChunks = 10
         /\ state.files[2].completedChunks = 5) =>
        \A p \in (resumeMark + 1)..Len(sentLog) :
            LET m == sentLog[p]
            IN /\ m.type = "chunk" =>
                     /\ FileOfChunk(m.data) # 1
                     /\ FileOfChunk(m.data) = 2 =>
                            ChunkStart(m.data) >= 5 * CHUNK_SIZE
               /\ m.type = "metadata" =>
                     /\ m.name # selectedFiles[1].name
                     /\ m.name = selectedFiles[3].name =>
                            /\ sentLog[p - 1].type = "end"
                            /\ sentLog[p - 2].type = "chunk"
                            /\ FileOfChunk(sentLog[p - 2].data) = 2
                            /\ ChunkStart(sentLog[p - 2].data) =
                                   9 * CHUNK_SIZE

\* C11: the chunks a saved state records as sent have been handed to the
\* channel, and whenever the sender rests with chunks sent, a saved state
\* of the session records them.
WriteAfterSend ==
    /\ \A state \in transferStates :
          \A i \in 1..Len(state.files) :
              state.files[i].completedChunks <= Len(ChunksOf(i))
    /\ (/\ txPc \in {"reading", "encrypting", "waiting"}
        /\ CountType(sentLog, "chunk") > 0) =>
          \E state \in getTransferState(transferStates, SessionId) :
              \A i \in 1..Len(txFiles) :
                  state.files[i].completedChunks = Len(ChunksOf(i))

\* C12: a sendFile called while the channel is not open rejects before it
\* emits anything: the call fails, and no message is sent, no byte is
\* buffered and no progress sample is given.
ChannelNotReady ==
    [][(txPc \in {"idle", "next"} /\ txDc # "open" /\ txPc' # txPc) =>
          /\ txPc' = "failed" /\ txStatus' = "failed"
          /\ wire' = wire /\ sentLog' = sentLog
          /\ bufferedAmount' = bufferedAmount
          /\ txProgress' = txProgress]_vars

\* C12 witness: a transfer started on a channel that is not open has failed
\* with nothing sent.
RejectedBeforeSending ==
    /\ txPc = "failed" /\ txStatus = "failed" /\ txFiles # <<>>
    /\ txDc # "open"
    /\ sentLog = <<>> /\ txProgress = ZeroProgress

\* C13: whenever no pause or resume message is in flight, the receiver
\* shows paused exactly when the sender is paused.
RemotePauseVisible ==
    (\A p \in 1..Len(wire) : wire[p].type \notin {"pause", "resume"}) =>
        (txIsPaused <=> rxStatus = "paused")

\* Whether the fraction of progress b is no less than that of a.
NoLess(a, b) ==
    (a.total > 0 /\ b.total > 0) => b.sent * a.total >= a.sent * b.total

\* C14: over a session the progress shown to the user never decreases from
\* one sample to the next, on the sender and on the receiver.
OverallProgressMonotone ==
    [][NoLess(txProgress, txProgress') /\ NoLess(rxProgress, rxProgress')]_vars

ChunkLengths ==
    [p \in 1..CountType(sentLog, "chunk") |->
        ByteLength(SelectSeq(sentLog, LAMBDA m : m.type = "chunk")[p].data)]

\* C16 as the spec states it: the 1 MiB file of Scenario A goes out as
\* exactly 64 binary messages followed by exactly one end message.
ScenarioASixtyFour ==
    /\ CountType(sentLog, "end") <= 1
    /\ CountType(sentLog, "end") = 1 =>
          /\ sentLog[Len(sentLog)].type = "end"
          /\ CountType(sentLog, "chunk") = 64

\* C16 amended: the 1 MiB file of Scenario A goes out as exactly 65 binary
\* messages, 64 of CHUNK_SIZE bytes and a last one of 28 bytes (the IV and
\* the tag add 28 bytes to the 1 MiB), followed by exactly one end message.
ScenarioAChunkCount ==
    /\ CountType(sentLog, "end") <= 1
    /\ CountType(sentLog, "chunk") <= TotalChunks(ScenarioA[1])
    /\ CountType(sentLog, "end") = 1 =>
          /\ sentLog[Len(sentLog)].type = "end"
          /\ CountType(sentLog, "chunk") = 64 + 1
          /\ \A p \in 1..64 : ChunkLengths[p] = CHUNK_SIZE
          /\ ChunkLengths[64 + 1] = IV_LENGTH + TAG_LENGTH

\* C16 witness: the file of Scenario A has been sent whole, end included.
ScenarioASent ==
    /\ txFiles = ScenarioA
    /\ CountType(sentLog, "end") = 1
    /\ txStatus = "completed"

\* The chunk loop has left its while: the offset has reached the length.
LawDone == law.size > 0 /\ law.offset >= ByteLength(law.data)

\* C17: for every buffer B and chunk size S > 0 the chunk loop emits
\* ceil(len(B)/S) slices, each of S bytes except the last, which has between
\* 1 and S bytes, and the slices concatenated in the order emitted are B.
ChunkingLaw ==
    /\ \A p \in 1..Len(law.slices) :
          /\ ByteLength(law.slices[p]) \in 1..law.size
          /\ p < Len(law.slices) => ByteLength(law.slices[p]) = law.size
    /\ Combine(law.slices) = Slice(law.data, 0, law.offset)
    /\ LawDone =>
          /\ Len(law.slices) =
                (ByteLength(law.data) + law.size - 1) \div law.size
          /\ Combine(law.slices) = law.data

\* C17 witness: a loop has ended after several slices, the last one short.
ChunkedWithShortLast ==
    /\ LawDone
    /\ Len(law.slices) >= 3
    /\ Len(law.data) = 2
    /\ ByteLength(law.slices[Len(law.slices)]) < law.size

\* C18: a storage write that fails does not change the outcome: once every
\* file is sent and sendFiles has returned the sender's status is completed,
\* and every file the receiver has decrypted is downloaded.
PersistenceFailureHarmless ==
    /\ (/\ txFiles # <<>>
        /\ CountType(sentLog, "end") = Len(txFiles)
        /\ txPc \in {"history", "done", "failed"}) =>
          txStatus = "completed"
    /\ rxDownloads = rxFiles

\* C20: a call of clearOldTransferStates(maxAge) deletes exactly the states
\* with now - lastUpdateTime > maxAge: every state of age at most maxAge,
\* the age maxAge included, is still there unchanged, and the history is not
\* touched.
RetentionSweep ==
    [][sweep'.calls # sweep.calls =>
          /\ transferStates' =
                {state \in transferStates :
                    now - state.lastUpdateTime <= sweep'.maxAge}
          /\ txHistory' = txHistory /\ rxHistory' = rxHistory]_vars

\* C20 witness: a sweep has just run with a history record in the store, and
\* the store holds a state whose age is exactly maxAge.
SweptAtBoundary ==
    /\ sweep.calls > 0 /\ sweep.at = now /\ sweep.maxAge > 0
    /\ txHistory # <<>>
    /\ Cardinality(transferStates) = 1
    /\ \E state \in transferStates :
          now - state.lastUpdateTime = sweep.maxAge

\* C15: on both pages the ETA computed for a progress sample is never
\* negative, and whenever the computed speed is 0 the ETA is shown as
\* 'Calculating...'.
EtaSanity ==
    \A meter \in {txMeter, rxMeter} :
        /\ meter.eta.num >= 0
        /\ meter.speed.num = 0 =>
              formatETA(meter.eta).text = "Calculating..."

\* The session states there are: that of the running session, once it has
\* files, and the snapshots in the store.
SessionStates ==
    (IF txFiles # <<>> THEN {SessionState} ELSE {}) \cup transferStates

PointsAtFirstIncomplete(state) ==
    LET open == {i \in 1..Len(state.files) : ~state.files[i].isCompleted}
    IN /\ state.currentFileIndex =
             IF open = {} THEN Len(state.files) + 1
             ELSE CHOOSE i \in open : \A j \in open : i <= j
       /\ \A i \in 1..Len(state.files) :
             i < state.currentFileIndex => state.files[i].isCompleted

PerFileMonotone ==
    [][/\ (txProgress' # txProgress /\ offset > 0) =>
             txProgress'.sent >= txProgress.sent
       /\ (rxProgress' # rxProgress /\ receivedSize > 0) =>
             rxProgress'.sent >= rxProgress.sent]_vars

\* C23 witness: both peers have given the third sample of a file of three
\* chunks.
ThirdSampleGiven ==
    /\ txProgress.sent = 2 * CHUNK_SIZE + 1
    /\ rxProgress.sent = 2 * CHUNK_SIZE + 1
    /\ Len(receivedChunks) = 3

\* The metadata messages sent that announce the i-th file.
MetadataOf(i) ==
    LET Announces(m) == m.type = "metadata" /\ m.name = txFiles[i].name
    IN SelectSeq(sentLog, Announces)

\* C24: a file of 0 bytes goes out as one metadata message announcing
\* 0 bytes, at most one binary message, of the 12 bytes of the IV and the 16
\* of the tag, and one end message, and every file the receiver surfaces for
\* it has 0 bytes and the name its metadata message announced.
EmptyFile ==
    \A i \in 1..Len(txFiles) :
        txFiles[i].size = 0 =>
            /\ Len(MetadataOf(i)) <= 1
            /\ \A p \in 1..Len(MetadataOf(i)) : MetadataOf(i)[p].size = 0
            /\ Len(ChunksOf(i)) <= 1
            /\ \A p \in 1..Len(ChunksOf(i)) :
                  ByteLength(ChunksOf(i)[p].data) = IV_LENGTH + TAG_LENGTH
            /\ CountType(sentLog, "end") >= i => Len(MetadataOf(i)) = 1
            /\ Len(txFiles) = 1 => CountType(sentLog, "end") <= 1
            /\ \A j \in Surfaced(i) :
                  /\ rxFiles[j].size = 0
                  /\ rxFiles[j].name = txFiles[i].name

\* C25: every file the receiver surfaces carries the name and the MIME type
\* of the metadata message of the file whose content it holds, also when the
\* next file's metadata and chunks are handled while it is being decrypted.
NameFromOwnMetadata ==
    \A i \in 1..Len(txFiles) :
        \A j \in Surfaced(i) :
            /\ rxFiles[j].name = txFiles[i].name
            /\ rxFiles[j].type = txFiles[i].type

\* This step hands a chunk to the channel.
ChunkHanded ==
    /\ Len(sentLog') = Len(sentLog) + 1
    /\ sentLog'[Len(sentLog')].type = "chunk"

\* C26: a chunk is handed to the channel only in a step that starts with
\* bufferedAmount at 4 x CHUNK_SIZE or below; a turn of the loop that finds
\* the open channel's bufferedAmount above it sends nothing, leaves offset
\* and status alone and sets the timer (the sender's only step there; the
\* receiver may take steps meanwhile), and the wait ends in nothing but the
\* loop checking again, the status unchanged.
BackpressureThreshold ==
    [][/\ ChunkHanded => bufferedAmount <= 4 * CHUNK_SIZE
       /\ (/\ txPc = "loop" /\ txDc = "open"
           /\ offset < ByteLength(combinedData)
           /\ bufferedAmount > 4 * CHUNK_SIZE)
          => (/\ txPc' \in {"loop", "waiting"}
              /\ sentLog' = sentLog
              /\ offset' = offset /\ txStatus' = txStatus)
       /\ (txPc = "waiting" /\ txPc' # "waiting")
          => (txPc' = "loop" /\ txStatus' = txStatus /\ sentLog' = sentLog)
      ]_vars

\* C26 witness: the loop has sent chunks of the file and now waits, the
\* buffer above the threshold.
HeldBack ==
    /\ txPc = "waiting"
    /\ offset > 0
    /\ bufferedAmount > 4 * CHUNK_SIZE

\* A sendFiles call of the first handleStartTransfer is under way.
SendActive == txPc \in {"reading", "encrypting", "loop", "waiting", "next"}

\* C27: once a transfer has started (its first message is sent) the status
\* is never 'connected' again, the state that shows the Start Transfer
\* button, whatever connection-state events follow, and no two send calls
\* are active on the channel at a time.
SingleSendLoop ==
    /\ sentLog # <<>> => txStatus # "connected"
    /\ (IF SendActive THEN 1 ELSE 0) + txSuspended <= 1

\* A status that ends a session.
Terminal(status) == status \in {"completed", "failed"}

\* C28: a status of completed or failed stays as it is, on either page,
\* until the user resets the page: no connection-state event, progress
\* sample, received file or pause click makes another status of it.
TerminalAbsorbing ==
    [][/\ (Terminal(txStatus) /\ txMode' # "null") => txStatus' = txStatus
       /\ (Terminal(rxStatus) /\ rxMode' # "null") => rxStatus' = rxStatus
      ]_vars

SameRate(q, bytes, ms) == (q.num \div 1000) * ms = bytes * q.den

\* The rule of the metrics on one sample of sent bytes at time t, from the
\* refs and state of meter to those of after.
Rule(meter, after, sent, t) ==
    IF t - meter.last.time > 100
    THEN /\ SameRate(after.speed, sent - meter.last.sent,
                     t - meter.last.time)
         /\ after.last = [sent |-> sent, time |-> t]
    ELSE /\ SameRate(after.speed, sent, t - meter.start)
         /\ after.last = meter.last

\* The rule with its two exceptions: a sample that finds no start time
\* stored stores itself as the start and as the last sample and has speed 0,
\* and a sample within 100 ms of the last at the very time of the start has
\* speed 0.
RuleFromStart(meter, after, sent, t) ==
    IF meter.start = 0
    THEN /\ after.start = t
         /\ after.last = [sent |-> sent, time |-> t]
         /\ after.speed.num = 0
    ELSE IF t - meter.last.time <= 100 /\ t = meter.start
    THEN after.speed.num = 0 /\ after.last = meter.last
    ELSE Rule(meter, after, sent, t)

\* This step gives the receiver's page a progress sample.
ChunkReceived == Len(receivedChunks') = Len(receivedChunks) + 1

\* C30 (as stated): on every progress sample, with more than 100 ms gone
\* since the stored last sample the speed is the bytes since it over the
\* time since it and the sample takes its place; otherwise the speed is the
\* sample's bytes over the time since the start and the stored last sample
\* stays.
MetricsRule ==
    [][/\ ChunkHanded => Rule(txMeter, txMeter', txProgress'.sent, now)
       /\ ChunkReceived => Rule(rxMeter, rxMeter', rxProgress'.sent, now)
      ]_vars

\* C30 (amended): the same rule on every sample but the one that finds no
\* start time stored, which becomes start and last sample with speed 0, and
\* the one taken at the start time itself, whose speed is 0.
MetricsRuleFromStart ==
    [][/\ ChunkHanded =>
             RuleFromStart(txMeter, txMeter', txProgress'.sent, now)
       /\ ChunkReceived =>
             RuleFromStart(rxMeter, rxMeter', rxProgress'.sent, now)
      ]_vars

\* C30 witness: the sender's stored last sample is later than the start (a
\* sample came more than 100 ms after the one before and took its place) and
\* holds fewer bytes than the latest sample of the same file (which came
\* within 100 ms and left it in place).
BothBranchesTaken ==
    /\ txMeter.start > 0
    /\ txMeter.last.time > txMeter.start
    /\ 0 < txMeter.last.sent /\ txMeter.last.sent < txProgress.sent

\* A sample within its bounds: 0 <= sent <= total, and the percentage a
\* number from 0 to 100.
WithinBounds(prog) ==
    /\ 0 <= prog.sent /\ prog.sent <= prog.total
    /\ prog.percentage \in Int
    /\ 0 <= prog.percentage /\ prog.percentage <= 100

\* C31: every progress sample of the sender and of the receiver has
\* 0 <= sent <= total and a finite percentage from 0 to 100, whatever the
\* size of the file.
ProgressBounds == WithinBounds(txProgress) /\ WithinBounds(rxProgress)

\* C32: the speed a progress sample leaves in the progress state is never
\* below 0, on either page, the first sample of a later file included.
SpeedNeverNegative ==
    /\ txMeter.speed.num >= 0 /\ txMeter.speed.den > 0
    /\ rxMeter.speed.num >= 0 /\ rxMeter.speed.den > 0

\* The key string is that of a 256-bit raw key.
ValidKey(keyString) == keyString.base64 /\ keyString.bytes = 32

\* C33: a setup whose payload holds a key string that is not base64 or not
\* a 256-bit raw key gets no further than importKey: once importKey has
\* settled the status is failed, and no answer is created and no ICE
\* candidate added at any time.
InvalidKeyRejectsSetup ==
    (rxSetup.pc # "idle" /\ ~ValidKey(rxSetup.key)) =>
        /\ rxSetup.pc \in {"importing", "failed"}
        /\ rxSetup.pc = "failed" => rxSetup.status = "failed"
        /\ rxSetup.answers = 0 /\ rxSetup.added = 0

\* The bytes accumulated since the last metadata message.
Accumulated == ByteLength(Combine(receivedChunks))

\* C34: when an end message arrives and fewer than 12 bytes have been
\* accumulated since the last metadata message (none at all, or with no
\* metadata before it), the receiver fails the file as truncated and does not
\* hand the short buffer on as a nonce and a ciphertext: the status becomes
\* failed and no decryption is started.
TruncatedTransfer ==
    [][(RxEnd /\ Accumulated < IV_LENGTH)
         => (rxStatus' = "failed" /\ rxDecrypting' = rxDecrypting)]_vars
\* The messages of the remote peer the receiver has handled.
Handled == SubSeq(sentLog, 1, Len(sentLog) - Len(wire))

\* The envelopes of a log that an end message has closed: one for each
\* metadata message (or the start of the log) followed by an end message
\* before the next metadata message.  closed tells whether an end message
\* has come since the last metadata message.
RECURSIVE Envelopes(_, _)
Envelopes(log, closed) ==
    IF log = <<>> THEN 0
    ELSE IF Head(log).type = "metadata" THEN Envelopes(Tail(log), FALSE)
    ELSE IF Head(log).type = "end" /\ ~closed
         THEN 1 + Envelopes(Tail(log), TRUE)
    ELSE Envelopes(Tail(log), closed)

\* C36: each metadata message leads to at most one surfaced file: a second
\* end message (or binary messages and an end message) that arrives without
\* a new metadata message surfaces nothing, so the files surfaced are never
\* more than the envelopes closed.
OneFilePerEnvelope == Len(rxFiles) <= Envelopes(Handled, FALSE)
\* C35: after handleReset nothing left over from the closed session (a send
\* loop that now fails, a late progress sample, a connection event, a
\* decryption that completes) changes the status or the progress: as long
\* as the page has no mode, its status is idle and its progress is zero.
ResetIsFinal ==
    /\ txMode = "null" => (txStatus = "idle" /\ txProgress = ZeroProgress)
    /\ rxMode = "null" => (rxStatus = "idle" /\ rxProgress = ZeroProgress)
\* C37: saveTransferState is an idempotent upsert keyed by sessionId: the
\* store holds at most one record for each sessionId, saving a state that
\* was just saved leaves the store as it is, and getTransferState(id)
\* returns the state last saved for id, or null when none was saved or the
\* last one was deleted.
StateStoreUpsert ==
    /\ \A id \in SweepSessions :
          /\ Cardinality(getTransferState(transferStates, id)) <= 1
          /\ getTransferState(transferStates, id) = lastSaved[id].state
    /\ \A state \in transferStates :
          /\ state.sessionId \in SweepSessions
          /\ saveTransferState(transferStates, state) = transferStates
    /\ \A id \in SweepSessions :
          LET state == [SessionState EXCEPT !.sessionId = id]
              once == saveTransferState(transferStates, state)
          IN saveTransferState(once, state) = once

\* C37 witness: the state of one session has been saved in place of an
\* older one, a call has deleted the record of the other session, and time
\* has passed since the save.
SavedOverAndDeleted ==
    /\ lastSaved[SessionId].call = "replaced"
    /\ lastSaved["earlier"].call = "deleted"
    /\ \E state \in getTransferState(transferStates, SessionId) :
          state.lastUpdateTime < now
    /\ sweep.calls = 0

====
